---- MODULE Spec2Model ----
(***************************************************************************)
(* Model of rust-graphql/src/main.rs: the AST node model (Document,        *)
(* Definition, TypeDefinition, ScalarType, Name), the ASTNode::accept      *)
(* dispatch, and the Printer visitor behind print().                       *)
(*                                                                         *)
(* Text is a sequence of one-character strings.  The Rust call chain is a  *)
(* stack of frames; every call of an accept or visit_* method is appended  *)
(* to the call log `calls` together with the depth of its frame.           *)
(***************************************************************************)
EXTENDS Integers, Sequences, FiniteSets

VARIABLES
    root,      \* the node `n` handed to the running / last print call
    stack,     \* call stack below print(): frames of accept / visit_* calls
    output,    \* Printer.output, the text accumulator
    calls,     \* log of the method calls made during the current print call
    phase,     \* "idle" | "running" | "done": position of the caller of print
    result,    \* the String returned by the last completed print call
    history    \* completed print calls, in order: [tree, result, calls]

vars == <<root, stack, output, calls, phase, result, history>>

(***************************************************************************)
(* Bounds                                                                  *)
(***************************************************************************)
MaxDefs == 2      \* longest Document.definitions drawn as an input
MaxPrints == 3    \* number of print calls made by the caller

(***************************************************************************)
(* Characters and text                                                     *)
(***************************************************************************)
Q == "\""
NL == "\n"
SEMI == ";"

None == <<>>
Some(x) == <<x>>
IsSome(o) == Len(o) = 1
Unwrap(o) == o[1]

(***************************************************************************)
(* The node model                                                          *)
(***************************************************************************)
Name(value) == [kind |-> "Name", value |-> value]

ScalarType(description, name) ==
    [kind |-> "ScalarType", description |-> description, name |-> name]

TypeDefinition_Scalar(st) ==
    [kind |-> "TypeDefinition", variant |-> "Scalar", payload |-> st]

Definition_TypeDefinition(td) ==
    [kind |-> "Definition", variant |-> "TypeDefinition", payload |-> td]

Document(definitions) == [kind |-> "Document", definitions |-> definitions]

ScalarDefinition(description, value) ==
    Definition_TypeDefinition(
        TypeDefinition_Scalar(ScalarType(description, Name(value))))

\* the document built by main()
MyDescription ==
    <<"a", " ", "v", "a", "l", "u", "e", " ", "t", "h", "a", "t", " ",
      "w", "e", " ", "c", "a", "n", " ", "u", "s", "e", " ", ":", ")">>
MyScalar == <<"M", "y", "S", "c", "a", "l", "a", "r">>
AnotherScalar ==
    <<"A", "n", "o", "t", "h", "e", "r", "S", "c", "a", "l", "a", "r">>
my_document ==
    Document(<<ScalarDefinition(Some(MyDescription), MyScalar),
               ScalarDefinition(None, AnotherScalar)>>)

(***************************************************************************)
(* Input trees                                                             *)
(***************************************************************************)
NameValues == {<<>>, <<"A">>}
Descriptions == {None, Some(<<"d">>), Some(<<Q, Q, Q>>)}

Names == {Name(v) : v \in NameValues}
ScalarTypes == {ScalarType(d, n) : d \in Descriptions, n \in Names}
TypeDefinitions == {TypeDefinition_Scalar(st) : st \in ScalarTypes}
Definitions == {Definition_TypeDefinition(td) : td \in TypeDefinitions}
DefinitionSeqs == UNION {[1..k -> Definitions] : k \in 0..MaxDefs}
Documents == {Document(ds) : ds \in DefinitionSeqs} \cup {my_document}

Trees == Names \cup ScalarTypes \cup TypeDefinitions \cup Definitions
            \cup Documents

\* the trees a caller holding tree t can hand to print: t itself and, for a
\* document, the one-definition document around each of its definitions
Parts(t) ==
    IF t.kind = "Document"
    THEN {t} \cup {Document(<<t.definitions[i]>>) : i \in 1..Len(t.definitions)}
    ELSE {t}

(***************************************************************************)
(* Call stack                                                              *)
(***************************************************************************)
EntryPc(fn) ==
    CASE fn = "visit_name" -> "push"
      [] fn = "visit_scalar_type" -> "description"
      [] fn = "visit_document" -> "loop"
      [] OTHER -> "call"

Frame(fn, node) ==
    [fn |-> fn, node |-> node, pc |-> EntryPc(fn), i |-> 1,
     mark |-> Len(output)]

Top == stack[Len(stack)]

At(fn, pc) ==
    /\ phase = "running"
    /\ stack # <<>>
    /\ Top.fn = fn
    /\ Top.pc = pc

SetTop(f) == [stack EXCEPT ![Len(stack)] = f]

\* the running method moves on to `pc` and calls fn(node)
Call(pc, fn, node) ==
    /\ stack' = Append(SetTop([Top EXCEPT !.pc = pc]), Frame(fn, node))
    /\ calls' = Append(calls, [fn |-> fn, node |-> node,
                               depth |-> Len(stack) + 1])

\* faulty variant: the closing delimiter line is not ended by a newline
Format_NoFinalNewline(description) ==
    <<Q, Q, Q, NL>> \o description \o <<NL, Q, Q, Q>>

\* "\"\"\"\n{}\n\"\"\"\n"
Format(description) ==
    <<Q, Q, Q, NL>> \o description \o <<NL, Q, Q, Q, NL>>

(***************************************************************************)
(* ASTNode::accept, one per node kind                                      *)
(***************************************************************************)
AcceptDocument ==
    /\ At("accept", "call")
    /\ Top.node.kind = "Document"
    /\ Call("ret", "visit_document", Top.node)
    /\ UNCHANGED <<root, output, phase, result, history>>

\* faulty variant: the node unwraps itself and dispatches on its payload
AcceptDefinition_Unwrap ==
    /\ At("accept", "call")
    /\ Top.node.kind = "Definition"
    /\ Call("ret", "visit_type_definition", Top.node.payload)
    /\ UNCHANGED <<root, output, phase, result, history>>

AcceptDefinition ==
    /\ At("accept", "call")
    /\ Top.node.kind = "Definition"
    /\ Call("ret", "visit_definition", Top.node)
    /\ UNCHANGED <<root, output, phase, result, history>>

AcceptTypeDefinition ==
    /\ At("accept", "call")
    /\ Top.node.kind = "TypeDefinition"
    /\ Call("ret", "visit_type_definition", Top.node)
    /\ UNCHANGED <<root, output, phase, result, history>>

AcceptName ==
    /\ At("accept", "call")
    /\ Top.node.kind = "Name"
    /\ Call("ret", "visit_name", Top.node)
    /\ UNCHANGED <<root, output, phase, result, history>>

AcceptScalarType ==
    /\ At("accept", "call")
    /\ Top.node.kind = "ScalarType"
    /\ Call("ret", "visit_scalar_type", Top.node)
    /\ UNCHANGED <<root, output, phase, result, history>>

(***************************************************************************)
(* impl Visitor for Printer                                                *)
(***************************************************************************)
\* faulty variant: an empty identifier is replaced by a placeholder
VisitName_Placeholder ==
    /\ At("visit_name", "push")
    /\ output' = output \o (IF Top.node.value = <<>> THEN <<"_">>
                            ELSE Top.node.value)
    /\ stack' = SetTop([Top EXCEPT !.pc = "ret"])
    /\ UNCHANGED <<root, calls, phase, result, history>>

\* faulty variant: the name is assigned to the accumulator, not appended
VisitName_Overwrite ==
    /\ At("visit_name", "push")
    /\ output' = Top.node.value
    /\ stack' = SetTop([Top EXCEPT !.pc = "ret"])
    /\ UNCHANGED <<root, calls, phase, result, history>>

VisitName ==
    /\ At("visit_name", "push")
    /\ output' = output \o Top.node.value
    /\ stack' = SetTop([Top EXCEPT !.pc = "ret"])
    /\ UNCHANGED <<root, calls, phase, result, history>>

\* faulty variant: an absent description is printed as an empty block
VisitScalarTypeDescription_EmptyBlock ==
    /\ At("visit_scalar_type", "description")
    /\ output' = IF IsSome(Top.node.description)
                 THEN output \o Format(Unwrap(Top.node.description))
                 ELSE output \o Format(<<>>)
    /\ stack' = SetTop([Top EXCEPT !.pc = "name"])
    /\ UNCHANGED <<root, calls, phase, result, history>>

VisitScalarTypeDescription ==
    /\ At("visit_scalar_type", "description")
    /\ output' = IF IsSome(Top.node.description)
                 THEN output \o Format(Unwrap(Top.node.description))
                 ELSE output
    /\ stack' = SetTop([Top EXCEPT !.pc = "name"])
    /\ UNCHANGED <<root, calls, phase, result, history>>

VisitScalarTypeName ==
    /\ At("visit_scalar_type", "name")
    /\ Call("terminator", "visit_name", Top.node.name)
    /\ UNCHANGED <<root, output, phase, result, history>>

VisitScalarTypeTerminator ==
    /\ At("visit_scalar_type", "terminator")
    /\ output' = output \o <<SEMI, NL>>
    /\ stack' = SetTop([Top EXCEPT !.pc = "ret"])
    /\ UNCHANGED <<root, calls, phase, result, history>>

VisitTypeDefinition ==
    /\ At("visit_type_definition", "call")
    /\ Top.node.variant = "Scalar"
    /\ Call("ret", "visit_scalar_type", Top.node.payload)
    /\ UNCHANGED <<root, output, phase, result, history>>

VisitDefinition ==
    /\ At("visit_definition", "call")
    /\ Top.node.variant = "TypeDefinition"
    /\ Call("ret", "visit_type_definition", Top.node.payload)
    /\ UNCHANGED <<root, output, phase, result, history>>

\* faulty variant: a blank line separates consecutive definitions
VisitDocument_Separator ==
    /\ At("visit_document", "loop")
    /\ IF Top.i <= Len(Top.node.definitions)
       THEN /\ stack' = Append(SetTop([Top EXCEPT !.i = Top.i + 1]),
                               Frame("visit_definition",
                                     Top.node.definitions[Top.i]))
            /\ calls' = Append(calls,
                               [fn |-> "visit_definition",
                                node |-> Top.node.definitions[Top.i],
                                depth |-> Len(stack) + 1])
            /\ output' = IF Top.i > 1 THEN output \o <<NL>> ELSE output
       ELSE /\ stack' = SetTop([Top EXCEPT !.pc = "ret"])
            /\ calls' = calls
            /\ output' = output
    /\ UNCHANGED <<root, phase, result, history>>

\* faulty variant: a newline is appended after the last definition
VisitDocument_Trailer ==
    /\ At("visit_document", "loop")
    /\ IF Top.i <= Len(Top.node.definitions)
       THEN /\ stack' = Append(SetTop([Top EXCEPT !.i = Top.i + 1]),
                               Frame("visit_definition",
                                     Top.node.definitions[Top.i]))
            /\ calls' = Append(calls,
                               [fn |-> "visit_definition",
                                node |-> Top.node.definitions[Top.i],
                                depth |-> Len(stack) + 1])
            /\ output' = output
       ELSE /\ stack' = SetTop([Top EXCEPT !.pc = "ret"])
            /\ calls' = calls
            /\ output' = output \o <<NL>>
    /\ UNCHANGED <<root, phase, result, history>>

\* faulty variant: the definitions are walked last to first
VisitDocument_Reverse ==
    /\ At("visit_document", "loop")
    /\ IF Top.i <= Len(Top.node.definitions)
       THEN LET d == Top.node.definitions[
                         Len(Top.node.definitions) + 1 - Top.i]
            IN  /\ stack' = Append(SetTop([Top EXCEPT !.i = Top.i + 1]),
                                   Frame("visit_definition", d))
                /\ calls' = Append(calls,
                                   [fn |-> "visit_definition", node |-> d,
                                    depth |-> Len(stack) + 1])
       ELSE /\ stack' = SetTop([Top EXCEPT !.pc = "ret"])
            /\ calls' = calls
    /\ UNCHANGED <<root, output, phase, result, history>>

\* variant: each definition is entered through its accept method
VisitDocument_ViaAccept ==
    /\ At("visit_document", "loop")
    /\ IF Top.i <= Len(Top.node.definitions)
       THEN /\ stack' = Append(SetTop([Top EXCEPT !.i = Top.i + 1]),
                               Frame("accept", Top.node.definitions[Top.i]))
            /\ calls' = Append(calls,
                               [fn |-> "accept",
                                node |-> Top.node.definitions[Top.i],
                                depth |-> Len(stack) + 1])
       ELSE /\ stack' = SetTop([Top EXCEPT !.pc = "ret"])
            /\ calls' = calls
    /\ UNCHANGED <<root, output, phase, result, history>>

VisitDocument ==
    /\ At("visit_document", "loop")
    /\ IF Top.i <= Len(Top.node.definitions)
       THEN /\ stack' = Append(SetTop([Top EXCEPT !.i = Top.i + 1]),
                               Frame("visit_definition",
                                     Top.node.definitions[Top.i]))
            /\ calls' = Append(calls,
                               [fn |-> "visit_definition",
                                node |-> Top.node.definitions[Top.i],
                                depth |-> Len(stack) + 1])
       ELSE /\ stack' = SetTop([Top EXCEPT !.pc = "ret"])
            /\ calls' = calls
    /\ UNCHANGED <<root, output, phase, result, history>>

\* a method whose body is finished returns to its caller
Return ==
    /\ phase = "running"
    /\ stack # <<>>
    /\ Top.pc = "ret"
    /\ stack' = SubSeq(stack, 1, Len(stack) - 1)
    /\ UNCHANGED <<root, output, calls, phase, result, history>>

(***************************************************************************)
(* print                                                                   *)
(***************************************************************************)
\* what the caller prints next: any tree first, afterwards any part of the
\* tree it printed first
Inputs ==
    IF history = <<>>
    THEN Trees
    ELSE Parts(history[1].tree)

\* faulty variant: the accumulator outlives the call and is not emptied
print_Reuse(n) ==
    /\ phase \in {"idle", "done"}
    /\ Len(history) < MaxPrints
    /\ root' = n
    /\ output' = output
    /\ stack' = <<[fn |-> "accept", node |-> n, pc |-> "call", i |-> 1,
                   mark |-> 0]>>
    /\ calls' = <<[fn |-> "accept", node |-> n, depth |-> 1]>>
    /\ phase' = "running"
    /\ UNCHANGED <<result, history>>

print(n) ==
    /\ phase \in {"idle", "done"}
    /\ Len(history) < MaxPrints
    /\ root' = n
    /\ output' = <<>>
    /\ stack' = <<[fn |-> "accept", node |-> n, pc |-> "call", i |-> 1,
                   mark |-> 0]>>
    /\ calls' = <<[fn |-> "accept", node |-> n, depth |-> 1]>>
    /\ phase' = "running"
    /\ UNCHANGED <<result, history>>

PrintReturn ==
    /\ phase = "running"
    /\ stack = <<>>
    /\ result' = output
    /\ history' = Append(history,
                         [tree |-> root, result |-> output, calls |-> calls])
    /\ phase' = "done"
    /\ UNCHANGED <<root, stack, output, calls>>

Init ==
    /\ root = Document(<<>>)
    /\ stack = <<>>
    /\ output = <<>>
    /\ calls = <<>>
    /\ phase = "idle"
    /\ result = <<>>
    /\ history = <<>>

Traverse ==
    \/ AcceptDocument
    \/ AcceptDefinition
    \/ AcceptTypeDefinition
    \/ AcceptName
    \/ AcceptScalarType
    \/ VisitName
    \/ VisitScalarTypeDescription
    \/ VisitScalarTypeName
    \/ VisitScalarTypeTerminator
    \/ VisitTypeDefinition
    \/ VisitDefinition
    \/ VisitDocument
    \/ Return
    \/ PrintReturn

Next ==
    \/ \E n \in Inputs : print(n)
    \/ Traverse

Spec == Init /\ [][Next]_vars

\* a caller that prints one tree; print is synchronous: once called it runs
\* to its return
FirstPrint == history = <<>> /\ \E n \in Trees : print(n)

NextOnce ==
    \/ FirstPrint
    \/ Traverse

OnePrintSpec == Init /\ [][NextOnce]_vars /\ WF_vars(Traverse)

TypeOK ==
    /\ phase \in {"idle", "running", "done"}
    /\ Len(history) <= MaxPrints
    /\ \A k \in 1..Len(stack) : stack[k].fn \in
           {"accept", "visit_document", "visit_definition",
            "visit_type_definition", "visit_scalar_type", "visit_name"}

(***************************************************************************)
(* Helpers of the properties                                               *)
(***************************************************************************)
Printed == {history[k] : k \in 1..Len(history)}

IsPrefix(s, t) == Len(s) <= Len(t) /\ SubSeq(t, 1, Len(s)) = s

ContainsDelimiter(text) ==
    \E i \in 1..(Len(text) - 2) :
        text[i] = Q /\ text[i + 1] = Q /\ text[i + 2] = Q

RECURSIVE Concat(_)
Concat(ss) == IF ss = <<>> THEN <<>> ELSE Head(ss) \o Concat(Tail(ss))

\* the calls of log L made directly by the call L[i]
Children(L, i) ==
    {j \in (i + 1)..Len(L) :
        /\ L[j].depth = L[i].depth + 1
        /\ \A m \in (i + 1)..(j - 1) : L[m].depth > L[i].depth}

VisitMethod(kind) ==
    CASE kind = "Document" -> "visit_document"
      [] kind = "Definition" -> "visit_definition"
      [] kind = "TypeDefinition" -> "visit_type_definition"
      [] kind = "ScalarType" -> "visit_scalar_type"
      [] kind = "Name" -> "visit_name"

IsAccept(c) == c.fn = "accept"
IsVisit(c) == c.fn # "accept"
IsVisitDefinition(c) == c.fn = "visit_definition"
IsDefinitionAccept(c) == c.fn = "accept" /\ c.node.kind = "Definition"

NodesOf(L) == [j \in 1..Len(L) |-> L[j].node]

(***************************************************************************)
(* C1: print of a ScalarType whose description is Some(text), text free of *)
(* the three-quote delimiter, returns exactly three quotes, newline, text, *)
(* newline, three quotes, newline, the name's value, ";" and newline.      *)
(***************************************************************************)
C1_DescribedScalar ==
    \A h \in Printed :
        (/\ h.tree.kind = "ScalarType"
         /\ IsSome(h.tree.description)
         /\ ~ContainsDelimiter(Unwrap(h.tree.description)))
        => h.result = <<Q, Q, Q, NL>> \o Unwrap(h.tree.description)
                        \o <<NL, Q, Q, Q, NL>> \o h.tree.name.value
                        \o <<SEMI, NL>>

C1_Witness ==
    \E h \in Printed :
        /\ h.tree = ScalarType(Some(<<"d">>), Name(<<"A">>))
        /\ h.result = <<Q, Q, Q, NL, "d", NL, Q, Q, Q, NL, "A", SEMI, NL>>

(***************************************************************************)
(* C2: print of a ScalarType without description returns exactly the       *)
(* name's value followed by ";" and newline.                               *)
(***************************************************************************)
C2_PlainScalar ==
    \A h \in Printed :
        (h.tree.kind = "ScalarType" /\ h.tree.description = None)
        => h.result = h.tree.name.value \o <<SEMI, NL>>

C2_Witness ==
    \E h \in Printed :
        /\ h.tree = ScalarType(None, Name(<<"A">>))
        /\ h.result = <<"A", SEMI, NL>>

(***************************************************************************)
(* C3: the output of a Document is the concatenation, in sequence order,   *)
(* of the outputs of the one-definition documents of its definitions; in   *)
(* particular print([a, b]) = print([a]) ++ print([b]).                    *)
(***************************************************************************)
SingleOutputs(d) == {h.result : h \in {g \in Printed : g.tree = Document(<<d>>)}}

C3_Concatenation ==
    \A h \in Printed :
        (/\ h.tree.kind = "Document"
         /\ \A i \in 1..Len(h.tree.definitions) :
                SingleOutputs(h.tree.definitions[i]) # {})
        => \A f \in [1..Len(h.tree.definitions) -> {g.result : g \in Printed}] :
               (\A i \in 1..Len(h.tree.definitions) :
                    f[i] \in SingleOutputs(h.tree.definitions[i]))
               => h.result = Concat(f)

C3_Witness ==
    \E h, ga, gb \in Printed :
        /\ h.tree.kind = "Document"
        /\ Len(h.tree.definitions) = 2
        /\ ga.tree = Document(<<h.tree.definitions[1]>>)
        /\ gb.tree = Document(<<h.tree.definitions[2]>>)
        /\ ga.result # gb.result
        /\ h.result = ga.result \o gb.result

(***************************************************************************)
(* C4: print of a Document without definitions returns the empty string    *)
(* and makes no visit besides the one visit_document.                      *)
(***************************************************************************)
C4_EmptyDocument ==
    \A h \in Printed :
        h.tree = Document(<<>>)
        => /\ h.result = <<>>
           /\ SelectSeq(h.calls, IsVisit)
                = <<[fn |-> "visit_document", node |-> h.tree, depth |-> 2]>>

C4_Witness ==
    \E h \in Printed : h.tree = Document(<<>>) /\ Len(h.calls) = 2

(***************************************************************************)
(* C5: two print calls on the same tree return the same text, whatever     *)
(* was printed before or in between.                                       *)
(***************************************************************************)
C5_Repeatable ==
    \A g, h \in Printed : g.tree = h.tree => g.result = h.result

C5_Witness ==
    /\ Len(history) = 3
    /\ history[1].tree = history[3].tree
    /\ history[2].tree # history[1].tree
    /\ history[1].result # <<>>
    /\ history[2].result # <<>>

(***************************************************************************)
(* C6: print of the document built by main returns the three-quote block   *)
(* around "a value that we can use :)", then "MyScalar;" and               *)
(* "AnotherScalar;", each line ended by a newline.                         *)
(***************************************************************************)
C6_SampleDocument ==
    \A h \in Printed :
        h.tree = my_document
        => h.result =
             <<Q, Q, Q, NL,
               "a", " ", "v", "a", "l", "u", "e", " ", "t", "h", "a", "t", " ",
               "w", "e", " ", "c", "a", "n", " ", "u", "s", "e", " ", ":", ")",
               NL, Q, Q, Q, NL,
               "M", "y", "S", "c", "a", "l", "a", "r", SEMI, NL,
               "A", "n", "o", "t", "h", "e", "r",
               "S", "c", "a", "l", "a", "r", SEMI, NL>>

C6_Witness ==
    \E h \in Printed : h.tree = my_document /\ Len(h.result) = 60

(***************************************************************************)
(* C7: a ScalarType with the empty name and no description is not          *)
(* rejected: print returns exactly ";" and newline.                        *)
(***************************************************************************)
C7_EmptyName ==
    \A h \in Printed :
        h.tree = ScalarType(None, Name(<<>>)) => h.result = <<SEMI, NL>>

C7_Witness ==
    \E h \in Printed :
        h.tree = ScalarType(None, Name(<<>>)) /\ Len(h.result) = 2

(***************************************************************************)
(* C8: every accept call makes exactly one call, the visit method of the   *)
(* node's own kind on the node itself, and no call on a child node.        *)
(***************************************************************************)
AcceptDispatches(L, complete) ==
    \A i \in 1..Len(L) :
        IsAccept(L[i])
        => /\ Cardinality(Children(L, i)) <= 1
           /\ complete => Cardinality(Children(L, i)) = 1
           /\ \A j \in Children(L, i) :
                  /\ L[j].fn = VisitMethod(L[i].node.kind)
                  /\ L[j].node = L[i].node

C8_AcceptDispatch ==
    /\ AcceptDispatches(calls, FALSE)
    /\ \A k \in 1..Len(stack) :
           (stack[k].fn = "accept" /\ stack[k].pc = "ret")
           => \E i \in 1..Len(calls) :
                  /\ IsAccept(calls[i])
                  /\ calls[i].depth = k
                  /\ Cardinality(Children(calls, i)) = 1
    /\ \A h \in Printed : AcceptDispatches(h.calls, TRUE)

C8_Witness ==
    \E h \in Printed :
        /\ h.tree.kind = "Definition"
        /\ Len(h.calls) = 5
        /\ h.calls[2] = [fn |-> "visit_definition", node |-> h.tree,
                         depth |-> 2]

Block(st) ==
    IF IsSome(st.description)
    THEN <<Q, Q, Q, NL>> \o Unwrap(st.description) \o <<NL, Q, Q, Q, NL>>
    ELSE <<>>

Emitted(k) == SubSeq(output, stack[k].mark + 1, Len(output))

AppendOnlyStep ==
    /\ phase = "running" => (IsPrefix(output, output') /\ root' = root)
    /\ (phase # "running" /\ phase' = "running") => output' = <<>>

ScalarOrder ==
    \A k \in 1..Len(stack) :
        stack[k].fn = "visit_scalar_type"
        => LET st == stack[k].node
               e == Emitted(k)
           IN  /\ stack[k].mark <= Len(output)
               /\ stack[k].pc = "description" => e = <<>>
               /\ stack[k].pc = "name" => e = Block(st)
               /\ stack[k].pc = "terminator"
                    => IF k = Len(stack)
                       THEN e = Block(st) \o st.name.value
                       ELSE e \in {Block(st), Block(st) \o st.name.value}
               /\ stack[k].pc = "ret"
                    => e = Block(st) \o st.name.value \o <<SEMI, NL>>

VisitCount ==
    /\ root.kind = "Document"
         => Len(SelectSeq(calls, IsVisit)) <= 1 + 4 * Len(root.definitions)
    /\ \A h \in Printed :
           h.tree.kind = "Document"
           => Len(SelectSeq(h.calls, IsVisit))
                = 1 + 4 * Len(h.tree.definitions)

C10_AppendOnly ==
    /\ [][AppendOnlyStep]_vars
    /\ [](ScalarOrder /\ VisitCount)
    /\ (phase = "running") ~> (phase = "done")

C10_Witness ==
    /\ phase = "done"
    /\ root.kind = "Document"
    /\ Len(root.definitions) = 2
    /\ IsSome(root.definitions[1].payload.payload.description)
    /\ Len(SelectSeq(calls, IsVisit)) = 9
    /\ result = output
    /\ output # <<>>

====
